---- MODULE Spec2Model ----
(***************************************************************************)
(* Appointment scheduling and reservation engine of the massage-salon bot  *)
(* (src/bot.py): the appointments and reviews tables, the booking, cancel, *)
(* complete, clear-history and review handlers, and the reminder sweep     *)
(* schedule_reminders.                                                     *)
(*                                                                         *)
(* Time is in seconds.  A handler's statements on one database connection  *)
(* up to its commit, together with the notification and the reply that     *)
(* follow it, are one step.  Steps are separated where the code awaits on  *)
(* another connection before it writes (create_appointment: the            *)
(* is_slot_available query, then the INSERT), where it sleeps              *)
(* (admin_complete_appointment, schedule_reminders).  The three reminder   *)
(* loops of a sweep cycle write only the reminder flags, which no handler  *)
(* reads; they are one step.  Calls of different users interleave at these *)
(* points, as they do when updates are processed concurrently or when      *)
(* several bot processes share the database file; the sweep is a task of   *)
(* its own and interleaves with every call.  The rate limiter of           *)
(* src/utils/security.py and the backup directory of                       *)
(* src/database/backup.py have specifications of their own.                *)
(***************************************************************************)
EXTENDS Integers, FiniteSets, Sequences, TLC

\* ------------------------------------------------------------------ bounds
MaxAppts == 2
MaxTicks == 1

\* ------------------------------------------------------- program constants
Minute == 60
Hour == 3600
Day == 86400
ReviewDelay == 600
SweepPeriod == 60
TenMinutes == 600

\* ---------------------------------------------------------- model domains
\* Telegram users that act as clients, the rows of the masters table and
\* the rows of the admins table.
Users == {"u1", "u2"}
Masters == {1, 2}
Admins == {"admin"}

\* The datetimes of the model: 10:00, the first time of get_available_times,
\* on day 1 and on day 2.
SlotTimes == {Day + (10 * Hour), (2 * Day) + (10 * Hour)}

\* The slots the users of the model book: <<datetime, master>>.
\* create_appointment takes the date and time of the pressed button and does
\* not compare them with the clock (get_available_slots does, when the
\* keyboard is drawn), so a slot that has just passed can still be booked.
Slots == {<<Day + (10 * Hour), 1>>, <<(2 * Day) + (10 * Hour), 2>>}

\* The clock starts one second after the first slot, so that the first slot
\* is past and the second is a day ahead, and advances TickLen seconds a step.
StartTime == Day + (10 * Hour) + 1
TickLen == 10 * Minute

NoUser == "-"

VARIABLES
    appointments,   \* the rows of the appointments table
    nextId,         \* the next AUTOINCREMENT id of the appointments table
    clients,        \* the users that have a row in the clients table
    now,            \* the wall clock
    booking,        \* per user, the create_appointment call in flight
    completing,     \* the admin_complete_appointment call in its sleep
    sweep,          \* the position of schedule_reminders
    lastOp,         \* the reply and the notifications of the last step
    masters,        \* per row of the masters table, its active flag
    blocked,        \* the chats a message cannot be delivered to
    reviews,        \* the rows of the reviews table
    review_data,    \* per user, context.user_data['review_data']
    rate_limit_cache,   \* Security._rate_limit_cache: per user, request times
    granted,        \* per user, the times of the requests accepted so far
    backup_dir,     \* the files of config.BACKUP_DIR
    db_mtime        \* the modification time of the database file

\* The state of utils/security.py and database/backup.py.
utilVars == <<rate_limit_cache, granted, backup_dir, db_mtime>>

\* The state of the bot proper, the clock and the last step apart.
botVars == <<appointments, nextId, clients, booking, completing, sweep,
             masters, blocked, reviews, review_data>>

vars == <<appointments, nextId, clients, now, booking, completing, sweep, lastOp,
          masters, blocked, reviews, review_data, utilVars>>


\* ------------------------------------------------------------------ rows
Terminal == {"completed", "cancelled"}

\* A row as INSERT INTO appointments (...) VALUES (?, ?, ?, ?, 'active')
\* leaves it: the three reminder flags take their DEFAULT 0.
NewRow(id, c, m, t) ==
    [id |-> id, client_id |-> c, master_id |-> m, appointment_time |-> t,
     status |-> "active", updated_at |-> now,
     reminder_sent_day |-> FALSE, reminder_sent_hour |-> FALSE,
     reminder_sent_admin |-> FALSE]

IssuedIds == 1 .. (nextId - 1)

RowsAt(rows, t, m) == {a \in rows : a.appointment_time = t /\ a.master_id = m}

\* is_slot_available with a query that matches no stored row (the
\* datetime bound in another format than the stored one).
is_slot_available_no_match(t, m) == TRUE

\* is_slot_available without the status condition of its query.
is_slot_available_any_status(t, m) == RowsAt(appointments, t, m) = {}

\* SELECT COUNT(*) ... WHERE appointment_time = ? AND master_id = ?
\* AND status = 'active'; return count == 0
is_slot_available(t, m) ==
    Cardinality({a \in RowsAt(appointments, t, m) : a.status = "active"}) = 0

\* The appointments table without its UNIQUE constraint.
unique_violation_never(t, m) == FALSE

\* The table constraint UNIQUE(appointment_time, master_id): an INSERT of
\* (t, m) raises IntegrityError when a row with that pair is stored.
unique_violation(t, m) == RowsAt(appointments, t, m) # {}

\* A status change that deletes the row in place of updating it.
update_status_delete(id, s) == {a \in appointments : a.id # id}

\* A status change that is rolled back when the operators' notification
\* that follows it is not delivered.
update_status_if_delivered(id, s) ==
    {IF a.id = id /\ Admins \cap blocked = {}
     THEN [a EXCEPT !.status = s, !.updated_at = now] ELSE a :
        a \in appointments}

\* A status change that writes the row anew, as INSERT OR REPLACE does: the
\* columns it does not name take their defaults.
update_status_replace(id, s) ==
    {IF a.id = id
     THEN [NewRow(a.id, a.client_id, a.master_id, a.appointment_time)
              EXCEPT !.status = s]
     ELSE a : a \in appointments}

\* UPDATE appointments SET status = ?, updated_at = CURRENT_TIMESTAMP
\* WHERE id = ?
update_status(id, s) ==
    {IF a.id = id THEN [a EXCEPT !.status = s, !.updated_at = now] ELSE a :
        a \in appointments}

\* ---------------------------------------------------------- notifications
Notification(kind, to, id, by) == [kind |-> kind, to |-> to, id |-> id, by |-> by]

\* One message to every row of the admins table.
send_admin_notification(kind, id, by) ==
    {Notification(kind, ad, id, by) : ad \in Admins}

send_new_appointment_notification(rows, id) ==
    IF \E a \in rows : a.id = id
    THEN send_admin_notification("new_appointment", id, NoUser)
    ELSE {}

\* send_cancellation_notification that ignores the caller's role and
\* always writes the default of the cancelled_by parameter.
send_cancellation_notification_default(rows, id, cancelled_by) ==
    IF \E a \in rows : a.id = id
    THEN send_admin_notification("cancellation", id, "client")
    ELSE {}

\* The role is "client" for the source's default and "administrator" for
\* the admin handler's argument.
send_cancellation_notification(rows, id, cancelled_by) ==
    IF \E a \in rows : a.id = id
    THEN send_admin_notification("cancellation", id, cancelled_by)
    ELSE {}

\* ask_for_review looks the row up and messages its client through
\* context.bot; the send is inside try/except.  botUsable is FALSE for the
\* sweep's call, which passes the class ContextTypes.DEFAULT_TYPE in place
\* of a context, so that context.bot.send_message raises and is logged.
ask_for_review(rows, id, botUsable) ==
    IF botUsable
    THEN {Notification("review_request", a.client_id, id, NoUser) :
            a \in {r \in rows : r.id = id}}
    ELSE {}

\* send_notification returns whether the message was delivered; it catches
\* every error of the send and returns False.
send_notification(chat_id) == chat_id \notin blocked

\* The messages of a set of sends that reach their chat.
Delivered(notifs) == {n \in notifs : send_notification(n.to)}

Op(op, reply, count, notif) ==
    [op |-> op, reply |-> reply, count |-> count, notif |-> notif]

NoOp == Op("none", "none", 0, {})

\* ------------------------------------------------------------------ init
\* No 'review_data' key in a user's context.user_data.
NoReview == [appointment_id |-> 0, client_id |-> NoUser, master_id |-> 0, rating |-> 0]

IdleCall == [pc |-> "idle", master_id |-> 0, appointment_time |-> 0]

\* cur is the id of the appointment the sweep holds during its sleep, 0 when
\* it holds none (ids start at 1).
SweepState(pc, now0, queue, cur, wake) ==
    [pc |-> pc, now0 |-> now0, queue |-> queue, cur |-> cur, wake |-> wake]

\* The rate limiter with no request seen and the backup directory empty.
UtilIdle ==
    /\ rate_limit_cache = [u \in Users |-> << >>]
    /\ granted = [u \in Users |-> << >>]
    /\ backup_dir = {}
    /\ db_mtime = 0

Init ==
    /\ appointments = {}
    /\ nextId = 1
    /\ clients = {}
    /\ now = StartTime
    /\ booking = [u \in Users |-> IdleCall]
    /\ completing = {}
    /\ sweep = SweepState("sleep", 0, {}, 0, StartTime)
    /\ lastOp = NoOp
    /\ masters = [m \in Masters |-> TRUE]
    /\ blocked = {}
    /\ reviews = {}
    /\ review_data = [u \in Users |-> NoReview]
    /\ UtilIdle

\* ----------------------------------------------------------------- clock
Tick ==
    /\ now < StartTime + (MaxTicks * TickLen)
    /\ now' = now + TickLen
    /\ lastOp' = NoOp
    /\ UNCHANGED <<utilVars, blocked, reviews, review_data, masters, appointments, nextId, clients, booking, completing, sweep>>

\* ------------------------------------------------------ create_appointment
InFlight == Cardinality({u \in Users : booking[u].pc = "insert"})

\* Client lookup or creation, then the is_slot_available re-check.
create_appointment_check(u, m, t) ==
    /\ booking[u].pc = "idle"
    /\ nextId + InFlight <= MaxAppts
    /\ clients' = clients \cup {u}
    /\ IF ~is_slot_available(t, m)
       THEN /\ lastOp' = Op("create_appointment", "SlotConflict", 0, {})
            /\ UNCHANGED booking
       ELSE /\ booking' = [booking EXCEPT ![u] =
                    [pc |-> "insert", master_id |-> m, appointment_time |-> t]]
            /\ lastOp' = NoOp
    /\ UNCHANGED <<utilVars, blocked, reviews, review_data, masters, appointments, nextId, now, completing, sweep>>

\* The INSERT, the commit, the reply, the operators' notification and
\* clear_user_context, which empties the user's context.user_data.  An
\* IntegrityError of the INSERT is not caught: the call ends with it and
\* nothing is written.
create_appointment_insert(u) ==
    /\ booking[u].pc = "insert"
    /\ LET m == booking[u].master_id
           t == booking[u].appointment_time
           rows == appointments \cup {NewRow(nextId, u, m, t)}
       IN  IF unique_violation(t, m)
           THEN /\ lastOp' = Op("create_appointment", "IntegrityError", 0, {})
                /\ UNCHANGED <<utilVars, appointments, nextId>>
           ELSE /\ appointments' = rows
                /\ nextId' = nextId + 1
                /\ lastOp' = Op("create_appointment", "created", 0,
                                send_new_appointment_notification(rows, nextId))
    /\ booking' = [booking EXCEPT ![u] = IdleCall]
    /\ review_data' = IF unique_violation(booking[u].appointment_time, booking[u].master_id)
                      THEN review_data
                      ELSE [review_data EXCEPT ![u] = NoReview]
    /\ UNCHANGED <<utilVars, blocked, reviews, masters, clients, now, completing, sweep>>

\* ------------------------------------------------------ cancel_appointment
\* An owner check that every caller passes.
is_owner_anyone(u, a) == TRUE

\* SELECT id FROM clients WHERE id = ? AND telegram_id = ?, with the client
\* of the row and the user of the update.
is_owner(u, a) == a.client_id = u

\* The client's cancel button: the row must be active and owned by the user.
cancel_appointment(u, id) ==
    /\ id \in IssuedIds
    /\ LET found == {a \in appointments : a.id = id /\ a.status = "active"}
           rows == update_status(id, "cancelled")
       IN  IF found = {}
           THEN /\ lastOp' = Op("cancel_appointment", "not_found_or_cancelled", 0, {})
                /\ UNCHANGED appointments
           ELSE IF \A a \in found : ~is_owner(u, a)
           THEN /\ lastOp' = Op("cancel_appointment", "not_owner", 0, {})
                /\ UNCHANGED appointments
           ELSE /\ appointments' = rows
                /\ lastOp' = Op("cancel_appointment", "ok", 0,
                                send_cancellation_notification(rows, id, "client"))
    /\ UNCHANGED <<utilVars, blocked, reviews, review_data, masters, nextId, clients, now, booking, completing, sweep>>

\* ------------------------------------------------ admin_cancel_appointment
admin_cancel_appointment(id) ==
    /\ id \in IssuedIds
    /\ LET rows == update_status(id, "cancelled")
       IN  /\ appointments' = rows
           /\ lastOp' = Op("admin_cancel_appointment", "ok", 0,
                           send_cancellation_notification(rows, id, "administrator"))
    /\ UNCHANGED <<utilVars, blocked, reviews, review_data, masters, nextId, clients, now, booking, completing, sweep>>

\* ---------------------------------------------- admin_complete_appointment
\* The UPDATE and its commit; the handler then sleeps ReviewDelay seconds.
admin_complete_appointment(id) ==
    /\ id \in IssuedIds
    /\ completing = {}
    /\ appointments' = update_status(id, "completed")
    /\ completing' = {[id |-> id, due |-> now + ReviewDelay]}
    /\ lastOp' = NoOp
    /\ UNCHANGED <<utilVars, blocked, reviews, review_data, masters, nextId, clients, now, booking, sweep>>

\* After the sleep: ask_for_review, then the reply that the appointment is
\* completed and the review request sent.
admin_complete_review(w) ==
    /\ w \in completing
    /\ now >= w.due
    /\ completing' = {}
    /\ lastOp' = Op("admin_complete_appointment", "ok", 0,
                    ask_for_review(appointments, w.id, TRUE))
    /\ UNCHANGED <<utilVars, blocked, reviews, review_data, masters, appointments, nextId,
                   clients, now, booking, sweep>>

\* ------------------------------------------------------------ clear_history
\* The DELETE of clear_history without its status condition.
history_rows_any_status(c) == {a \in appointments : a.client_id = c}

\* The rows matched by DELETE FROM appointments WHERE client_id = ?
\* AND status IN ('completed', 'cancelled')
history_rows(c) ==
    {a \in appointments : a.client_id = c /\ a.status \in {"completed", "cancelled"}}

clear_history(u) ==
    /\ IF u \notin clients
       THEN /\ lastOp' = Op("clear_history", "client_not_found", 0, {})
            /\ UNCHANGED appointments
       ELSE /\ appointments' = appointments \ history_rows(u)
            /\ lastOp' = Op("clear_history", "cleared",
                            Cardinality(history_rows(u)), {})
    /\ UNCHANGED <<utilVars, blocked, reviews, review_data, masters, nextId, clients, now, booking, completing, sweep>>

\* -------------------------------------------------------- schedule_reminders
ReminderKinds == {"day", "hour", "admin"}

\* The inclusive bounds of the BETWEEN of each reminder query, from the
\* cycle's timestamp t0: the calendar day of t0 + 1 day, the clock hour of
\* t0 + 1 hour, the clock minute of t0 + 10 minutes.
Window(kind, t0) ==
    LET span == IF kind = "day" THEN Day ELSE IF kind = "hour" THEN Hour ELSE Minute
        later == IF kind = "day" THEN t0 + Day
                 ELSE IF kind = "hour" THEN t0 + Hour ELSE t0 + TenMinutes
        lo == later - (later % span)
    IN  [lo |-> lo, hi |-> lo + span - 1]

\* The three reminder queries reading and writing the day flag.
Flag_day(kind) == "reminder_sent_day"

Flag(kind) ==
    IF kind = "day" THEN "reminder_sent_day"
    ELSE IF kind = "hour" THEN "reminder_sent_hour" ELSE "reminder_sent_admin"

\* A query for the past appointments that matches no row.
Selected_none(rows) == {}

Selected(rows) == {[id |-> a.id, client |-> a.client_id] : a \in rows}

\* The rows one reminder query returns: in the window of the cycle's
\* timestamp t0, active, flag unset.
Due(rows, kind, t0) ==
    {a \in rows :
        /\ a.appointment_time >= Window(kind, t0).lo
        /\ a.appointment_time <= Window(kind, t0).hi
        /\ a.status = "active"
        /\ ~a[Flag(kind)]}

\* The messages of one reminder loop: to the client for the day and hour
\* reminders, to every admin for the admin reminder.
Reminders(rows, kind, t0) ==
    UNION {IF kind = "admin"
           THEN send_admin_notification("admin_reminder", a.id, NoUser)
           ELSE {Notification(kind, a.client_id, a.id, NoUser)} :
           a \in Due(rows, kind, t0)}

\* A reminder loop that sends and does not set the flag.
Remind_no_flag(rows, kind, t0) == rows

\* A reminder loop that sets the flag only when the send returned True.
Remind_if_delivered(rows, kind, t0) ==
    {IF a \in Due(rows, kind, t0)
        /\ \A n \in Reminders({a}, kind, t0) : send_notification(n.to)
     THEN [a EXCEPT ![Flag(kind)] = TRUE] ELSE a : a \in rows}

\* The table after one reminder loop: UPDATE appointments SET <flag> = 1
\* WHERE id = ? for every row the query returned.
Remind(rows, kind, t0) ==
    {IF a \in Due(rows, kind, t0) THEN [a EXCEPT ![Flag(kind)] = TRUE] ELSE a :
        a \in rows}

\* The query for the past appointments with <= in place of <.
past_appointments_due_now(rows, t) ==
    {a \in rows : a.appointment_time <= t /\ a.status = "active"}

\* SELECT ... WHERE a.appointment_time < ? AND a.status = 'active', with
\* the timestamp of the cycle.
past_appointments(rows, t) ==
    {a \in rows : a.appointment_time < t /\ a.status = "active"}

\* A cycle started by a timer of its own, whatever the cycle before it is
\* doing.
schedule_reminders_start_timer ==
    /\ now >= sweep.wake
    /\ sweep' = SweepState("auto", now,
            Selected(past_appointments(appointments, now)),
            0, 0)
    /\ lastOp' = NoOp
    /\ UNCHANGED <<utilVars, blocked, reviews, review_data, masters, appointments, nextId, clients, now, booking, completing>>

\* now = datetime.now() and the query for the past active appointments.
schedule_reminders_start ==
    /\ sweep.pc = "sleep"
    /\ now >= sweep.wake
    /\ sweep' = SweepState("auto", now,
            Selected(past_appointments(appointments, now)),
            0, 0)
    /\ lastOp' = NoOp
    /\ UNCHANGED <<utilVars, blocked, reviews, review_data, masters, appointments, nextId, clients, now, booking, completing>>

\* One pass of the auto-complete loop up to its sleep.  The rows come back
\* in no stated order.
schedule_reminders_complete ==
    /\ sweep.pc = "auto"
    /\ \E e \in sweep.queue :
        /\ appointments' = update_status(e.id, "completed")
        /\ sweep' = SweepState("review_sleep", sweep.now0, sweep.queue \ {e},
                               e.id, now + ReviewDelay)
    /\ lastOp' = NoOp
    /\ UNCHANGED <<utilVars, blocked, reviews, review_data, masters, nextId, clients, now, booking, completing>>

\* After the sleep: ask_for_review(None, ContextTypes.DEFAULT_TYPE, app_id).
schedule_reminders_ask_review ==
    /\ sweep.pc = "review_sleep"
    /\ now >= sweep.wake
    /\ lastOp' = Op("schedule_reminders", "review", 0,
                    ask_for_review(appointments, sweep.cur, FALSE))
    /\ sweep' = SweepState("auto", sweep.now0, sweep.queue, 0, 0)
    /\ UNCHANGED <<utilVars, blocked, reviews, review_data, masters, appointments, nextId, clients, now, booking, completing>>

\* The three reminder loops, against the timestamp of the cycle, and the
\* await asyncio.sleep(60) that ends the cycle.
schedule_reminders_remind ==
    /\ sweep.pc = "auto"
    /\ sweep.queue = {}
    /\ LET t0 == sweep.now0
           afterDay == Remind(appointments, "day", t0)
           afterHour == Remind(afterDay, "hour", t0)
       IN  /\ appointments' = Remind(afterHour, "admin", t0)
           /\ lastOp' = Op("schedule_reminders", "reminders", 0,
                    Reminders(appointments, "day", t0)
                        \cup Reminders(afterDay, "hour", t0)
                        \cup Reminders(afterHour, "admin", t0))
    /\ sweep' = SweepState("sleep", 0, {}, 0, now + SweepPeriod)
    /\ UNCHANGED <<utilVars, blocked, reviews, review_data, masters, nextId, clients, now, booking, completing>>

\* A scheduler whose error handler ends the task.
on_error_exit == SweepState("dead", 0, {}, 0, 0)

\* except Exception as e: the error is logged, then await asyncio.sleep(60)
\* and the while True loop goes round: the rest of the cycle is dropped.
on_error == SweepState("sleep", 0, {}, 0, now + SweepPeriod)

\* An error raised by a statement of a cycle: a database operation of the
\* auto-complete loop or of the reminder loops, or of ask_for_review after
\* the sleep (its query is outside its own try).
schedule_reminders_error ==
    /\ \/ sweep.pc = "auto"
       \/ sweep.pc = "review_sleep" /\ now >= sweep.wake
    /\ sweep' = on_error
    /\ lastOp' = Op("schedule_reminders", "error", 0, {})
    /\ UNCHANGED <<utilVars, blocked, reviews, review_data, masters, appointments, nextId, clients, now, booking, completing>>

\* ------------------------------------------------------------------ spec
Next ==
    \/ Tick
    \/ \E u \in Users, s \in Slots : create_appointment_check(u, s[2], s[1])
    \/ \E u \in Users : create_appointment_insert(u)
    \/ \E u \in Users, id \in 1 .. MaxAppts : cancel_appointment(u, id)
    \/ \E id \in 1 .. MaxAppts : admin_cancel_appointment(id)
    \/ \E id \in 1 .. MaxAppts : admin_complete_appointment(id)
    \/ \E w \in completing : admin_complete_review(w)
    \/ \E u \in Users : clear_history(u)
    \/ schedule_reminders_start
    \/ schedule_reminders_complete
    \/ schedule_reminders_ask_review
    \/ schedule_reminders_remind

Spec == Init /\ [][Next]_vars


\* ------------------------------------------ slot generator and availability
\* A date is its day number and a time of day "HH:MM" the pair
\* <<hour, minute>>.
start_hour == 10
end_hour == 18
HorizonDays == 14

\* datetime.strptime(time_str, '%H:%M').time(), in seconds after midnight.
TimeOfDay(time_str) == (time_str[1] * Hour) + (time_str[2] * Minute)

\* datetime.strptime(f"{date_str} {time_str}", '%d.%m.%Y %H:%M')
appointment_datetime(date_str, time_str) == (date_str * Day) + TimeOfDay(time_str)

\* A generator loop that steps one hour in place of one hour and a half.
next_time_hourly(h, mi) == <<h + 1, mi>>

\* current_hour += 1; current_minute += 30; carry of the minutes.
next_time(h, mi) ==
    IF mi + 30 >= 60 THEN <<h + 2, (mi + 30) - 60>> ELSE <<h + 1, mi + 30>>

\* The while loop of get_available_times from (h, mi).
RECURSIVE times_from(_, _)
times_from(h, mi) ==
    IF h < end_hour \/ (h = end_hour /\ mi = 0)
    THEN <<<<h, mi>>>> \o times_from(next_time(h, mi)[1], next_time(h, mi)[2])
    ELSE <<>>

\* The loop's times, filtered to those not after 17:30.
get_available_times ==
    SelectSeq(times_from(start_hour, 0),
              LAMBDA t : TimeOfDay(t) <= TimeOfDay(<<17, 30>>))

\* today = datetime.now().date() and the dates today .. today + 13.
today == now \div Day

get_available_dates == [i \in 1 .. HorizonDays |-> today + (i - 1)]

\* get_available_slots without the filter of today's past times.
get_available_slots_unfiltered(date_str, master_id) ==
    SelectSeq(get_available_times,
              LAMBDA t : is_slot_available(appointment_datetime(date_str, t), master_id))

\* get_available_slots that drops only the times strictly before the clock.
get_available_slots_strict(date_str, master_id) ==
    SelectSeq(get_available_times,
              LAMBDA t : /\ ~(date_str = today /\ TimeOfDay(t) < now % Day)
                         /\ is_slot_available(appointment_datetime(date_str, t), master_id))

\* get_available_slots: of the generator's times, in its order, those that
\* are not, on today's date, at or before the clock, and whose slot is
\* available.
get_available_slots(date_str, master_id) ==
    SelectSeq(get_available_times,
              LAMBDA t : /\ ~(date_str = today /\ TimeOfDay(t) <= now % Day)
                         /\ is_slot_available(appointment_datetime(date_str, t), master_id))

\* choose_master: SELECT id, name FROM masters WHERE active = 1, one button
\* for each.
choose_master ==
    /\ lastOp' = [op |-> "choose_master", offered |-> {m \in Masters : masters[m]}]
    /\ UNCHANGED <<utilVars, blocked, reviews, review_data, masters, appointments, nextId, clients, now, booking, completing,
                   sweep>>

\* choose_time: the time buttons of a date and master are the result of
\* get_available_slots at the time of the call.
choose_time(master_id, selected_date) ==
    /\ lastOp' = [op |-> "choose_time", master_id |-> master_id,
                  date |-> selected_date,
                  slots |-> get_available_slots(selected_date, master_id)]
    /\ UNCHANGED <<utilVars, blocked, reviews, review_data, masters, appointments, nextId, clients, now, booking, completing,
                   sweep>>

\* The clock values the availability queries start from: 10:00:00 of day 1,
\* the time of a slot, and one second later.
QueryStarts == {Day + (10 * Hour), StartTime}

\* The dates asked for: yesterday, today, tomorrow, and the first date past
\* the horizon of get_available_dates.
QueryDates == {0, 1, 2, 1 + HorizonDays}

\* The slots booked between the queries: today 10:00 and 11:30 with master
\* 1, tomorrow 10:00 with master 2.
QuerySlots == Slots \cup {<<Day + (11 * Hour) + (30 * Minute), 1>>}

\* The user who books and cancels between the queries.
QueryUsers == {"u1"}

\* The masters table may hold deactivated rows from an earlier run:
\* init_db creates the table only if it does not exist and inserts the
\* masters only into an empty table.  Either both masters are active or
\* master 2 is deactivated.
MasterTables == {[m \in Masters |-> TRUE], [m \in Masters |-> m = 1]}

SlotInit ==
    /\ appointments = {}
    /\ nextId = 1
    /\ clients = {}
    /\ now \in QueryStarts
    /\ booking = [u \in Users |-> IdleCall]
    /\ completing = {}
    /\ sweep = SweepState("sleep", 0, {}, 0, StartTime)
    /\ lastOp = NoOp
    /\ masters \in MasterTables
    /\ blocked = {}
    /\ reviews = {}
    /\ review_data = [u \in Users |-> NoReview]
    /\ UtilIdle

SlotNext ==
    \/ Tick
    \/ \E u \in QueryUsers, s \in QuerySlots : create_appointment_check(u, s[2], s[1])
    \/ \E u \in QueryUsers : create_appointment_insert(u)
    \/ \E u \in QueryUsers, id \in 1 .. MaxAppts : cancel_appointment(u, id)
    \/ choose_master
    \/ \E m \in Masters, d \in QueryDates : choose_time(m, d)

SlotSpec == SlotInit /\ [][SlotNext]_vars


\* ------------------------------------------------- sweep after a restart
\* The sweep of a process started on the database file of an earlier run:
\* init_db keeps the stored rows.  A stored row was inserted at time 0.
StoredRow(id, c, m, t) == [NewRow(id, c, m, t) EXCEPT !.updated_at = 0]

\* The tables the process may find: empty; tomorrow's 10:00 booked; today's
\* 10:00, already past, booked with master 1, alone, with today's 10:00 of
\* master 2, or with tomorrow's 10:00.
StoredTables ==
    {{},
     {StoredRow(1, "u1", 2, (2 * Day) + (10 * Hour))},
     {StoredRow(1, "u1", 1, Day + (10 * Hour))},
     {StoredRow(1, "u1", 1, Day + (10 * Hour)),
      StoredRow(2, "u2", 2, Day + (10 * Hour))},
     {StoredRow(1, "u1", 1, Day + (10 * Hour)),
      StoredRow(2, "u2", 2, (2 * Day) + (10 * Hour))}}

SweepInit ==
    /\ now = StartTime
    /\ appointments \in StoredTables
    /\ nextId = Cardinality(appointments) + 1
    /\ clients = {a.client_id : a \in appointments}
    /\ booking = [u \in Users |-> IdleCall]
    /\ completing = {}
    /\ sweep = SweepState("sleep", 0, {}, 0, StartTime)
    /\ lastOp = NoOp
    /\ masters = [m \in Masters |-> TRUE]
    /\ blocked = {}
    /\ reviews = {}
    /\ review_data = [u \in Users |-> NoReview]
    /\ UtilIdle

SweepNext ==
    \/ Tick
    \/ \E u \in QueryUsers, s \in Slots : create_appointment_check(u, s[2], s[1])
    \/ \E u \in QueryUsers : create_appointment_insert(u)
    \/ \E u \in Users, id \in 1 .. MaxAppts : cancel_appointment(u, id)
    \/ \E id \in 1 .. MaxAppts : admin_cancel_appointment(id)
    \/ schedule_reminders_start
    \/ schedule_reminders_complete
    \/ schedule_reminders_ask_review
    \/ schedule_reminders_remind

SweepSpec == SweepInit /\ [][SweepNext]_vars

\* ------------------------------------------------- reminders and delivery
\* The process starts ten minutes before the first slot, on the database
\* file of an earlier run, so that the first slot is in the hour-before and
\* the admin windows of the first cycle and the second slot in its
\* day-before window.
ReminderStart == StartTime - TickLen

\* The tables the process may find: empty; or the first slot booked, its
\* day-before reminder sent the day before, and the second slot booked.
ReminderTables ==
    {{},
     {[StoredRow(1, "u1", 1, Day + (10 * Hour)) EXCEPT !.reminder_sent_day = TRUE],
      StoredRow(2, "u2", 2, (2 * Day) + (10 * Hour))}}

\* Every chat reachable, or the chat of the first user and of the admin not
\* reachable (the bot blocked, the chat never opened).
BlockedSets == {{}, {"u1", "admin"}}

ReminderInit ==
    /\ now = ReminderStart
    /\ appointments \in ReminderTables
    /\ nextId = Cardinality(appointments) + 1
    /\ clients = {a.client_id : a \in appointments}
    /\ booking = [u \in Users |-> IdleCall]
    /\ completing = {}
    /\ sweep = SweepState("sleep", 0, {}, 0, ReminderStart)
    /\ lastOp = NoOp
    /\ masters = [m \in Masters |-> TRUE]
    /\ blocked \in BlockedSets
    /\ reviews = {}
    /\ review_data = [u \in Users |-> NoReview]
    /\ UtilIdle

ReminderNext ==
    \/ Tick
    \/ \E u \in QueryUsers, s \in Slots : create_appointment_check(u, s[2], s[1])
    \/ \E u \in QueryUsers : create_appointment_insert(u)
    \/ \E u \in Users, id \in 1 .. MaxAppts : cancel_appointment(u, id)
    \/ \E id \in 1 .. MaxAppts : admin_cancel_appointment(id)
    \/ \E id \in 1 .. MaxAppts : admin_complete_appointment(id)
    \/ \E w \in completing : admin_complete_review(w)
    \/ schedule_reminders_start
    \/ schedule_reminders_complete
    \/ schedule_reminders_ask_review
    \/ schedule_reminders_remind
    \/ schedule_reminders_error

ReminderSpec == ReminderInit /\ [][ReminderNext]_vars

\* The same with the clock advancing and the scheduler's task scheduled:
\* its while True loop takes the next cycle once its sleep is over.
ReminderLive ==
    /\ ReminderSpec
    /\ WF_vars(Tick)
    /\ WF_vars(schedule_reminders_start)


\* ----------------------------------------------------------------- reviews
\* The bound on the rows of the reviews table.
MaxReviews == 2

\* The rating of a button of the review request: -1 for "skip", else the
\* number of stars.
Ratings == {-1, 5}

\* SELECT id FROM reviews WHERE appointment_id = ?
existing_review(id) == \E r \in reviews : r.appointment_id = id

\* One message to the admins when the appointment of the review is stored.
send_review_notification(rows, id) ==
    IF \E a \in rows : a.id = id
    THEN send_admin_notification("review", id, NoUser)
    ELSE {}

\* A rating button review_<id>_<rating>.  The handler reads the appointment
\* by its id alone: it looks neither at the status of the row nor at who
\* pressed the button.  When no row has the id it does nothing.
save_review(u, id, rating) ==
    /\ LET found == {a \in appointments : a.id = id}
       IN  IF rating = -1
           THEN /\ lastOp' = Op("save_review", "skipped", 0, {})
                /\ UNCHANGED review_data
           ELSE IF found = {}
           THEN /\ lastOp' = Op("save_review", "none", 0, {})
                /\ UNCHANGED review_data
           ELSE IF existing_review(id)
           THEN /\ lastOp' = Op("save_review", "already_reviewed", 0, {})
                /\ UNCHANGED review_data
           ELSE /\ \E a \in found :
                    review_data' = [review_data EXCEPT ![u] =
                        [appointment_id |-> id, client_id |-> a.client_id,
                         master_id |-> a.master_id, rating |-> rating]]
                /\ lastOp' = Op("save_review", "ask_comment", 0, {})
    /\ UNCHANGED <<utilVars, blocked, reviews, masters, appointments, nextId, clients, now,
                   booking, completing, sweep>>

\* The button review_comment_skip: INSERT INTO reviews from the user's
\* review_data, with no second look at the reviews table; the id of the row
\* is the AUTOINCREMENT of a table no row is deleted from.
save_review_comment(u) ==
    /\ Cardinality(reviews) < MaxReviews
    /\ IF review_data[u] = NoReview
       THEN /\ lastOp' = Op("save_review_comment", "no_review_data", 0, {})
            /\ UNCHANGED <<utilVars, reviews, review_data>>
       ELSE /\ reviews' = reviews \cup
                    {[id |-> Cardinality(reviews) + 1,
                      appointment_id |-> review_data[u].appointment_id,
                      client_id |-> review_data[u].client_id,
                      master_id |-> review_data[u].master_id,
                      rating |-> review_data[u].rating]}
            /\ review_data' = [review_data EXCEPT ![u] = NoReview]
            /\ lastOp' = Op("save_review_comment", "saved", 0,
                    send_review_notification(appointments, review_data[u].appointment_id))
    /\ UNCHANGED <<utilVars, blocked, masters, appointments, nextId, clients, now, booking,
                   completing, sweep>>

\* A text message while review_data is set: message_handler calls
\* save_review_comment with the text; update.callback_query is None for a
\* message, so query.answer() raises before anything is written.
message_handler_comment(u) ==
    /\ review_data[u] # NoReview
    /\ lastOp' = Op("message_handler", "AttributeError", 0, {})
    /\ UNCHANGED <<utilVars, blocked, reviews, review_data, masters, appointments, nextId,
                   clients, now, booking, completing, sweep>>

\* The process on the database file of an earlier run, with the booking,
\* cancel, complete and clear-history handlers and the review handlers.
ReviewInit ==
    /\ now = StartTime
    /\ appointments \in StoredTables
    /\ nextId = Cardinality(appointments) + 1
    /\ clients = {a.client_id : a \in appointments}
    /\ booking = [u \in Users |-> IdleCall]
    /\ completing = {}
    /\ sweep = SweepState("sleep", 0, {}, 0, StartTime)
    /\ lastOp = NoOp
    /\ masters = [m \in Masters |-> TRUE]
    /\ blocked = {}
    /\ reviews = {}
    /\ review_data = [u \in Users |-> NoReview]
    /\ UtilIdle

ReviewNext ==
    \/ Tick
    \/ \E u \in QueryUsers, s \in Slots : create_appointment_check(u, s[2], s[1])
    \/ \E u \in QueryUsers : create_appointment_insert(u)
    \/ \E u \in Users, id \in 1 .. MaxAppts : cancel_appointment(u, id)
    \/ \E id \in 1 .. MaxAppts : admin_cancel_appointment(id)
    \/ \E id \in 1 .. MaxAppts : admin_complete_appointment(id)
    \/ \E w \in completing : admin_complete_review(w)
    \/ \E u \in Users : clear_history(u)
    \/ \E u \in Users, id \in 1 .. MaxAppts, rating \in Ratings : save_review(u, id, rating)
    \/ \E u \in Users : save_review_comment(u)
    \/ \E u \in Users : message_handler_comment(u)

ReviewSpec == ReviewInit /\ [][ReviewNext]_vars

\* ------------------------------------------- the reminder loops, by step
\* The reminder loops of a cycle one statement at a time: each loop is a
\* SELECT, then for every row it returned a send and an UPDATE of the
\* flag.  The loop awaits at every send, and a handler can run in between.
ReminderPc(kind) ==
    IF kind = "day" THEN "remind_day"
    ELSE IF kind = "hour" THEN "remind_hour" ELSE "remind_admin"

\* The position a loop's SELECT is reached from: the end of the
\* auto-complete loop for the day query, the end of the loop before it for
\* the other two.
BeforePc(kind) ==
    IF kind = "day" THEN "auto"
    ELSE IF kind = "hour" THEN "remind_day" ELSE "remind_hour"

KindOfPc(pc) ==
    IF pc = "remind_day" THEN "day"
    ELSE IF pc = "remind_hour" THEN "hour" ELSE "admin"

\* The SELECT of one reminder loop and its fetchall.
schedule_reminders_select(kind) ==
    /\ sweep.pc = BeforePc(kind)
    /\ sweep.queue = {}
    /\ sweep' = SweepState(ReminderPc(kind), sweep.now0,
                           Selected(Due(appointments, kind, sweep.now0)), 0, 0)
    /\ lastOp' = NoOp
    /\ UNCHANGED <<utilVars, blocked, reviews, review_data, masters, appointments, nextId, clients, now, booking, completing>>

\* One pass of a reminder loop: the send for a fetched row, to the chat the
\* SELECT returned or to every admin, then UPDATE appointments SET
\* <flag> = 1 WHERE id = ?.  The row is not read again.
schedule_reminders_send ==
    /\ sweep.pc \in {ReminderPc(k) : k \in ReminderKinds}
    /\ \E e \in sweep.queue :
        LET kind == KindOfPc(sweep.pc)
        IN  /\ lastOp' = Op("schedule_reminders", "reminder", 0,
                    IF kind = "admin"
                    THEN send_admin_notification("admin_reminder", e.id, NoUser)
                    ELSE {Notification(kind, e.client, e.id, NoUser)})
            /\ appointments' =
                    {IF a.id = e.id THEN [a EXCEPT ![Flag(kind)] = TRUE] ELSE a :
                        a \in appointments}
            /\ sweep' = [sweep EXCEPT !.queue = @ \ {e}]
    /\ UNCHANGED <<utilVars, blocked, reviews, review_data, masters, nextId, clients, now, booking, completing>>

\* The await asyncio.sleep(60) that ends the cycle.
schedule_reminders_sleep ==
    /\ sweep.pc = ReminderPc("admin")
    /\ sweep.queue = {}
    /\ sweep' = SweepState("sleep", 0, {}, 0, now + SweepPeriod)
    /\ lastOp' = NoOp
    /\ UNCHANGED <<utilVars, blocked, reviews, review_data, masters, appointments, nextId, clients, now, booking, completing>>

StepNext ==
    \/ Tick
    \/ \E u \in Users, id \in 1 .. MaxAppts : cancel_appointment(u, id)
    \/ \E id \in 1 .. MaxAppts : admin_cancel_appointment(id)
    \/ schedule_reminders_start
    \/ schedule_reminders_complete
    \/ schedule_reminders_ask_review
    \/ \E kind \in ReminderKinds : schedule_reminders_select(kind)
    \/ schedule_reminders_send
    \/ schedule_reminders_sleep

StepSpec == ReminderInit /\ [][StepNext]_vars

\* ------------------------------------------------- the sweep on the clock
\* The scheduler alone, with the clock to the second: time passes while the
\* scheduler sleeps, and a sleep ends at its time or up to MaxLag seconds
\* later (the statements of a cycle and the wake-up of the task take time).
MaxLag == 1

\* The process starts at 09:48:59 of day 1 and the model ends at 10:10:00.
ClockStart == Day + (9 * Hour) + (48 * Minute) + 59
ClockEnd == Day + (10 * Hour) + (10 * Minute)

\* The tables the process may find: the first slot of day 1 booked; that
\* and one or two appointments of the day before still active (the process
\* was down since).
ClockTables ==
    {{StoredRow(1, "u1", 1, Day + (10 * Hour))},
     {StoredRow(1, "u1", 1, Day + (10 * Hour)),
      StoredRow(2, "u2", 1, 16 * Hour)},
     {StoredRow(1, "u1", 1, Day + (10 * Hour)),
      StoredRow(2, "u2", 1, 16 * Hour),
      StoredRow(3, "u2", 2, 16 * Hour)}}

\* await asyncio.sleep(...): the scheduler resumes at its wake time or lag
\* seconds after it.
asyncio_sleep(lag) ==
    /\ sweep.pc \in {"sleep", "review_sleep"}
    /\ now < sweep.wake
    /\ sweep.wake + lag <= ClockEnd
    /\ now' = sweep.wake + lag
    /\ lastOp' = NoOp
    /\ UNCHANGED <<utilVars, blocked, reviews, review_data, masters, appointments, nextId, clients, booking, completing, sweep>>

ClockInit ==
    /\ now = ClockStart
    /\ appointments \in ClockTables
    /\ nextId = Cardinality(appointments) + 1
    /\ clients = {a.client_id : a \in appointments}
    /\ booking = [u \in Users |-> IdleCall]
    /\ completing = {}
    /\ sweep = SweepState("sleep", 0, {}, 0, ClockStart)
    /\ lastOp = NoOp
    /\ masters = [m \in Masters |-> TRUE]
    /\ blocked = {}
    /\ reviews = {}
    /\ review_data = [u \in Users |-> NoReview]
    /\ UtilIdle

ClockNext ==
    \/ \E lag \in 0 .. MaxLag : asyncio_sleep(lag)
    \/ schedule_reminders_start
    \/ schedule_reminders_complete
    \/ schedule_reminders_ask_review
    \/ schedule_reminders_remind

ClockSpec == ClockInit /\ [][ClockNext]_vars

\* -------------------------------------------------- utils/security.py
\* Security.check_rate_limit on its own, with the clock in half minutes.
RATE_LIMIT_PER_USER == 10

MaxRateTicks == 2
MaxOtherCalls == 2
RateTick == Minute \div 2
RateStart == Hour

\* What the cache may hold for the second user when the first one starts:
\* nothing, or one request of an hour ago (the cache is cleaned only when a
\* request is accepted).
OldRequests == {<< >>, <<0>>, <<RateTick>>}

\* [req_time for req_time in user_requests if req_time > t]
newer_than(user_requests, t) ==
    SelectSeq(user_requests, LAMBDA req_time : req_time > t)

\* The limit test with > in place of >=.
limit_reached_above(n) == n > RATE_LIMIT_PER_USER

\* if len(user_requests) >= Security.RATE_LIMIT_PER_USER
limit_reached(n) == n >= RATE_LIMIT_PER_USER

\* Security._cleanup_rate_limit_cache: every list loses its entries of more
\* than an hour ago; a key whose list is empty is deleted (a missing key
\* reads as the empty list).
cleanup_rate_limit_cache(cache, t) ==
    [u \in DOMAIN cache |-> newer_than(cache[u], t - Hour)]

\* Security.check_rate_limit(user_id).
check_rate_limit(user_id) ==
    /\ user_id = "u1" \/ Len(granted[user_id]) < MaxOtherCalls
    /\ LET minute_ago == now - Minute
           user_requests == newer_than(rate_limit_cache[user_id], minute_ago)
       IN  IF limit_reached(Len(user_requests))
           THEN /\ lastOp' = Op("check_rate_limit", "False", 0, {})
                /\ UNCHANGED <<rate_limit_cache, granted>>
           ELSE /\ rate_limit_cache' =
                    cleanup_rate_limit_cache(
                        [rate_limit_cache EXCEPT
                            ![user_id] = Append(user_requests, now)], now)
                /\ granted' = [granted EXCEPT ![user_id] = Append(@, now)]
                /\ lastOp' = Op("check_rate_limit", "True", 0, {})
    /\ UNCHANGED <<now, botVars, backup_dir, db_mtime>>

\* Time passes between two requests.
RateClock ==
    /\ now < RateStart + (MaxRateTicks * RateTick)
    /\ now' = now + RateTick
    /\ lastOp' = NoOp
    /\ UNCHANGED <<botVars, utilVars>>

RateInit ==
    /\ appointments = {}
    /\ nextId = 1
    /\ clients = {}
    /\ now = RateStart
    /\ booking = [u \in Users |-> IdleCall]
    /\ completing = {}
    /\ sweep = SweepState("sleep", 0, {}, 0, RateStart)
    /\ lastOp = NoOp
    /\ masters = [m \in Masters |-> TRUE]
    /\ blocked = {}
    /\ reviews = {}
    /\ review_data = [u \in Users |-> NoReview]
    /\ \E old \in OldRequests :
        /\ rate_limit_cache = [u \in Users |-> IF u = "u2" THEN old ELSE << >>]
        /\ granted = rate_limit_cache
    /\ backup_dir = {}
    /\ db_mtime = 0

RateNext ==
    \/ RateClock
    \/ \E user_id \in Users : check_rate_limit(user_id)

RateSpec == RateInit /\ [][RateNext]_vars

\* -------------------------------------------------- database/backup.py
\* The backup directory: create_backup and cleanup_old_backups, called by
\* schedule_backups every BACKUP_INTERVAL_HOURS and by the manual backup.
MaxBackupTicks == 3
MaxKeep == 2
BackupInterval == 6 * Hour

\* A file of the directory: its name (the second it was created for a
\* backup), its modification time, and whether its name is that of a backup.
File(name, mtime, kind) == [name |-> name, mtime |-> mtime, kind |-> kind]

\* file.endswith(".db") and file.startswith("massage_backup_") and isfile
is_backup(f) == f.kind = "backup"

\* The sort with the newest first.
in_order_newest_first(x, y) == x.mtime >= y.mtime

\* backup_files.sort(key=lambda x: x[1]): the oldest first.
in_order(x, y) == x.mtime <= y.mtime

\* The files the first n places of the sorted list may hold: n of the
\* files, none of them after one of the others in the order of the sort
\* (files of one modification time keep the order os.listdir gave them,
\* which is any).
first_of_sorted(files, n) ==
    {old \in SUBSET files :
        /\ Cardinality(old) = n
        /\ \A x \in old : \A y \in files \ old : in_order(x, y)}

\* create_backup: shutil.copy2 copies the database file and its modification
\* time to massage_backup_<now>.db; a copy that fails the integrity check is
\* removed.
create_backup ==
    /\ \E ok \in BOOLEAN :
        /\ backup_dir' = {f \in backup_dir : f.name # now} \cup
                (IF ok THEN {File(now, db_mtime, "backup")} ELSE {})
        /\ lastOp' = Op("create_backup", IF ok THEN "created" ELSE "None", 0, {})
    /\ UNCHANGED <<now, botVars, rate_limit_cache, granted, db_mtime>>

\* cleanup_old_backups(max_backups): the first len - max_backups files of the
\* sorted list are removed; a file that os.remove fails on is logged and
\* stays.  The step records the number of files removed.
cleanup_old_backups(max_backups) ==
    /\ LET backup_files == {f \in backup_dir : is_backup(f)}
           files_to_delete == Cardinality(backup_files) - max_backups
       IN  IF Cardinality(backup_files) > max_backups
           THEN \E old \in first_of_sorted(backup_files, files_to_delete) :
                    \E failed \in SUBSET old :
                        /\ backup_dir' = backup_dir \ (old \ failed)
                        /\ lastOp' = Op("cleanup_old_backups",
                                        IF failed = {} THEN "done" ELSE "error",
                                        Cardinality(old \ failed), {})
           ELSE /\ backup_dir' = backup_dir
                /\ lastOp' = Op("cleanup_old_backups", "done", 0, {})
    /\ UNCHANGED <<now, botVars, rate_limit_cache, granted, db_mtime>>

\* A commit of the bot writes the database file.
db_write ==
    /\ db_mtime < now
    /\ db_mtime' = now
    /\ lastOp' = NoOp
    /\ UNCHANGED <<now, botVars, rate_limit_cache, granted, backup_dir>>

\* await asyncio.sleep(config.BACKUP_INTERVAL_HOURS * 3600)
backup_sleep ==
    /\ now < StartTime + (MaxBackupTicks * BackupInterval)
    /\ now' = now + BackupInterval
    /\ lastOp' = NoOp
    /\ UNCHANGED <<botVars, utilVars>>

BackupInit ==
    /\ appointments = {}
    /\ nextId = 1
    /\ clients = {}
    /\ now = StartTime
    /\ booking = [u \in Users |-> IdleCall]
    /\ completing = {}
    /\ sweep = SweepState("sleep", 0, {}, 0, StartTime)
    /\ lastOp = NoOp
    /\ masters = [m \in Masters |-> TRUE]
    /\ blocked = {}
    /\ reviews = {}
    /\ review_data = [u \in Users |-> NoReview]
    /\ rate_limit_cache = [u \in Users |-> << >>]
    /\ granted = [u \in Users |-> << >>]
    /\ backup_dir \in {{}, {File(0, 0, "other")}}
    /\ db_mtime = 0

BackupNext ==
    \/ backup_sleep
    \/ db_write
    \/ create_backup
    \/ \E max_backups \in 0 .. MaxKeep : cleanup_old_backups(max_backups)

BackupSpec == BackupInit /\ [][BackupNext]_vars

\* ================================================================ claims
Ids == 1 .. MaxAppts

ActiveAt(t, m) == {a \in RowsAt(appointments, t, m) : a.status = "active"}

RowOf(id) == {a \in appointments : a.id = id}

\* C1: for every provider and timestamp, at most one active appointment
\* is stored with that (provider, time), in every reachable state.
C1_AtMostOneActivePerSlot ==
    \A m \in Masters, t \in SlotTimes : Cardinality(ActiveAt(t, m)) <= 1

\* A create call that passed its availability check has just lost the
\* slot at the INSERT to the one row stored, which is active.
C1_Witness ==
    /\ lastOp.op = "create_appointment"
    /\ lastOp.reply = "IntegrityError"
    /\ Cardinality(appointments) = 1
    /\ \A a \in appointments : a.status = "active"

\* C2: of the create calls racing for one slot, one succeeds and every
\* other one ends with SlotConflict: while every stored appointment is
\* active, no create call ends with the storage error.
C2_RaceLoserGetsSlotConflict ==
    (/\ lastOp.op = "create_appointment"
     /\ \A a \in appointments : a.status = "active")
        => lastOp.reply \in {"created", "SlotConflict"}

\* C3: no step changes the status of an appointment that is completed or
\* cancelled.
C3_TerminalIsFinal ==
    [][\A a \in appointments : a.status \in Terminal =>
            \A b \in appointments' : b.id = a.id => b.status = a.status]_vars

\* C4: when the only appointment stored at a slot is cancelled or
\* completed, the slot is available and the INSERT of a create call for
\* it succeeds and stores a new active appointment at the slot.
C4_TerminalRowFreesSlot ==
    [][\A u \in Users :
        LET t == booking[u].appointment_time
            m == booking[u].master_id
        IN  (/\ create_appointment_insert(u)
             /\ RowsAt(appointments, t, m) # {}
             /\ \A a \in RowsAt(appointments, t, m) : a.status \in Terminal)
            => /\ is_slot_available(t, m)
               /\ lastOp'.reply = "created"
               /\ \E b \in RowsAt(appointments', t, m) : b.status = "active"]_vars

\* C5: a create call that starts while an active appointment is stored at
\* its slot ends with SlotConflict, stores no row, issues no id and leaves
\* every stored appointment unchanged.
C5_TakenSlotIsRefused ==
    [][\A u \in Users, s \in Slots :
        (create_appointment_check(u, s[2], s[1]) /\ ActiveAt(s[1], s[2]) # {})
            => /\ lastOp'.reply = "SlotConflict"
               /\ appointments' = appointments
               /\ nextId' = nextId
               /\ booking'[u].pc = "idle"]_vars

C5_Witness ==
    /\ lastOp.op = "create_appointment"
    /\ lastOp.reply = "SlotConflict"
    /\ \E a \in appointments : a.status = "active"

\* C6: completeAppointment on a completed or cancelled appointment changes
\* no row (neither status nor updated-at) and starts no review request.
C6_CompleteIsGuarded ==
    [][\A id \in Ids :
        (/\ admin_complete_appointment(id)
         /\ \E a \in RowOf(id) : a.status \in Terminal)
            => /\ appointments' = appointments
               /\ completing' = completing]_vars

\* C7: cancelAppointment on a completed or cancelled appointment, by the
\* client or by the admin, changes no row, sends no notification and does
\* not reply that the appointment was cancelled.
C7_CancelOfTerminalIsRefused ==
    [][\A id \in Ids :
        (/\ \E a \in RowOf(id) : a.status \in Terminal
         /\ \/ admin_cancel_appointment(id)
            \/ \E u \in Users : cancel_appointment(u, id))
            => /\ appointments' = appointments
               /\ lastOp'.notif = {}
               /\ lastOp'.reply # "ok"]_vars

\* What a cancel of the active row a by the given role leaves: the row
\* cancelled and stamped with the current time, every other row as it was,
\* and one cancellation message naming the role to each operator.
Cancelled(a, role) ==
    /\ appointments' =
            (appointments \ {a})
                \cup {[a EXCEPT !.status = "cancelled", !.updated_at = now]}
    /\ lastOp'.reply = "ok"
    /\ lastOp'.notif = {Notification("cancellation", ad, a.id, role) : ad \in Admins}

\* C8: cancelAppointment on an active appointment, by its client or by the
\* admin, sets the status to cancelled, stamps updated-at, keeps the row
\* and sends one cancellation notification that names the actor's role.
C8_CancelOfActive ==
    [][\A a \in appointments : a.status = "active" =>
        /\ admin_cancel_appointment(a.id) => Cancelled(a, "administrator")
        /\ cancel_appointment(a.client_id, a.id) => Cancelled(a, "client")]_vars

\* The client has just cancelled an appointment at a later time than the
\* start: the row is stored, cancelled and stamped with the current time.
C8_Witness ==
    /\ lastOp.op = "cancel_appointment"
    /\ lastOp.reply = "ok"
    /\ now > StartTime
    /\ \E a \in appointments :
        /\ a.status = "cancelled"
        /\ a.updated_at = now
        /\ lastOp.notif = send_admin_notification("cancellation", a.id, "client")

\* C9: a cancel or complete for an id that no stored appointment has
\* changes no row, sends nothing and does not reply that it succeeded.
C9_UnknownIdIsNotFound ==
    [][\A id \in Ids : RowOf(id) = {} =>
        /\ (\/ admin_cancel_appointment(id)
            \/ \E u \in Users : cancel_appointment(u, id))
                => /\ appointments' = appointments
                   /\ lastOp'.notif = {}
                   /\ lastOp'.reply # "ok"
        /\ admin_complete_appointment(id) => appointments' = appointments
        /\ \A w \in completing : (w.id = id /\ admin_complete_review(w))
                => /\ lastOp'.notif = {}
                   /\ lastOp'.reply # "ok"]_vars

\* C10: clear-history of a client deletes exactly that client's completed
\* and cancelled appointments, replies their number, and leaves every
\* active appointment and every other client's appointments stored.
C10_ClearHistoryFrame ==
    [][\A u \in Users : clear_history(u) =>
        LET gone == {a \in appointments : a.client_id = u /\ a.status \in Terminal}
        IN  /\ appointments' = appointments \ gone
            /\ \A a \in appointments :
                    (a.status = "active" \/ a.client_id # u) => a \in appointments'
            /\ IF lastOp'.reply = "cleared"
               THEN lastOp'.count = Cardinality(gone)
               ELSE gone = {}]_vars

\* Clear-history has just deleted a row and another row is still stored.
C10_Witness ==
    /\ lastOp.op = "clear_history"
    /\ lastOp.count >= 1
    /\ appointments # {}

StoredIds(rows) == {a.id : a \in rows}

\* C11: a step that removes an appointment from the table is a
\* clear-history step, and the appointments it removes are completed or
\* cancelled: cancel, complete, the sweep's auto-complete and the reminder
\* updates keep every row, and an active appointment is never removed.
C11_OnlyClearHistoryRemoves ==
    [][\A a \in appointments :
        a.id \notin StoredIds(appointments')
            => /\ \E u \in Users : clear_history(u)
               /\ a.status \in Terminal]_vars

\* Clear-history has just removed a row and left an active one stored.
C11_Witness ==
    /\ lastOp.op = "clear_history"
    /\ lastOp.count >= 1
    /\ \E a \in appointments : a.status = "active"

\* C12: is_slot_available(t, m) is true exactly when no stored appointment
\* is active with time t and master m; completed and cancelled
\* appointments at (t, m) and active appointments of another master or at
\* another time do not change the answer.
C12_AvailableIffNoActive ==
    \A t \in SlotTimes, m \in Masters :
        is_slot_available(t, m) <=>
            ~\E a \in appointments :
                a.status = "active" /\ a.appointment_time = t /\ a.master_id = m

\* One slot holds only a completed or cancelled appointment and is
\* available, another slot holds an active appointment and is not.
C12_Witness ==
    /\ \E a \in appointments :
        /\ a.status \in Terminal
        /\ is_slot_available(a.appointment_time, a.master_id)
    /\ \E b \in appointments :
        /\ b.status = "active"
        /\ ~is_slot_available(b.appointment_time, b.master_id)
        /\ \E m \in Masters : m # b.master_id /\ is_slot_available(b.appointment_time, m)

\* ------------------------------------------------ availability queries
Range(seq) == {seq[i] : i \in 1 .. Len(seq)}

IsQuery == lastOp.op = "choose_time"

ActiveAtSlot(date_str, time_str, master_id) ==
    \E a \in appointments :
        /\ a.status = "active"
        /\ a.master_id = master_id
        /\ a.appointment_time = (date_str * Day) + TimeOfDay(time_str)

InOrder(seq) ==
    \A i, j \in 1 .. Len(seq) : i < j => TimeOfDay(seq[i]) < TimeOfDay(seq[j])

\* C13 as stated: the slots returned for a date and master are, in the
\* generator's order, exactly the generator's times at which no active
\* appointment of the master is stored on that date.
C13_SlotsAreExactlyTheFreeTimes ==
    IsQuery =>
        /\ Range(lastOp.slots) =
                {t \in Range(get_available_times) :
                    ~ActiveAtSlot(lastOp.date, t, lastOp.master_id)}
        /\ InOrder(lastOp.slots)

\* C13: the slots returned for a date and master are, in the generator's
\* order, exactly the generator's times at which no active appointment of
\* the master is stored on that date at the time of the call and which,
\* when the date is today, are later than the clock.
C13_SlotsAreTheFreeTimesNotPastToday ==
    IsQuery =>
        /\ Range(lastOp.slots) =
                {t \in Range(get_available_times) :
                    /\ ~ActiveAtSlot(lastOp.date, t, lastOp.master_id)
                    /\ lastOp.date = now \div Day => TimeOfDay(t) > now % Day}
        /\ InOrder(lastOp.slots)

\* A query for today's date and master 1 made while today's 11:30 is
\* booked and the rest of the day is free: it returns 13:00 to 17:30.
C13_Witness ==
    /\ IsQuery
    /\ lastOp.date = now \div Day
    /\ ActiveAtSlot(lastOp.date, <<11, 30>>, lastOp.master_id)
    /\ lastOp.slots = <<<<13, 0>>, <<14, 30>>, <<16, 0>>, <<17, 30>>>>

\* C14: a query for today's date returns no time of day that is at or
\* before the clock of the call.
C14_NoPastTimeToday ==
    (IsQuery /\ lastOp.date = now \div Day) =>
        \A t \in Range(lastOp.slots) : TimeOfDay(t) > now % Day

\* A query for today at 10:00:00 sharp with 10:00 free: 10:00 is left out
\* and 11:30 is offered.
C14_Witness ==
    /\ IsQuery
    /\ lastOp.date = now \div Day
    /\ now % Day = TimeOfDay(<<10, 0>>)
    /\ ~ActiveAtSlot(lastOp.date, <<10, 0>>, lastOp.master_id)
    /\ <<10, 0>> \notin Range(lastOp.slots)
    /\ <<11, 30>> \in Range(lastOp.slots)

\* C15: a query for a date before today or 14 or more days after today
\* returns the empty sequence.
C15_OutsideHorizonIsEmpty ==
    (IsQuery /\ lastOp.date \notin Range(get_available_dates)) =>
        lastOp.slots = <<>>

C17_GeneratorTimes ==
    LET times == get_available_times
        expected == <<<<10, 0>>, <<11, 30>>, <<13, 0>>, <<14, 30>>, <<16, 0>>, <<17, 30>>>>
    IN  /\ times = expected
        /\ \A i \in 1 .. Len(times) :
                /\ TimeOfDay(times[i]) = TimeOfDay(<<10, 0>>) + ((i - 1) * 90 * Minute)
                /\ TimeOfDay(times[i]) <= TimeOfDay(<<17, 30>>)
        /\ TimeOfDay(<<10, 0>>) + (Len(times) * 90 * Minute) > TimeOfDay(<<17, 30>>)
        /\ (/\ IsQuery
             /\ lastOp.date > now \div Day
             /\ \A t \in Range(expected) :
                    ~ActiveAtSlot(lastOp.date, t, lastOp.master_id))
                => lastOp.slots = expected

\* A query for tomorrow, made after the clock has advanced, returns the
\* six times.
C17_Witness ==
    /\ IsQuery
    /\ lastOp.date = (now \div Day) + 1
    /\ now \notin QueryStarts
    /\ Len(lastOp.slots) = 6

C19_ReviewDelayDoesNotBlock ==
    [][schedule_reminders_complete => sweep'.pc = "auto"]_vars

DayReminder(a) == Notification("day", a.client_id, a.id, NoUser)

\* C20: the reminder step of a sweep sends the day-before reminder for
\* every active appointment in the day-before window whose day flag is
\* unset and sets the flag; it sends none for an appointment whose flag is
\* set; no other step sends a day-before reminder; and a set flag stays
\* set.  Hence each appointment gets the day-before reminder once.
C20_DayReminderOnce ==
    [][/\ \A a \in appointments :
            /\ schedule_reminders_remind =>
                /\ (/\ a.status = "active"
                     /\ ~a.reminder_sent_day
                     /\ a.appointment_time >= Window("day", sweep.now0).lo
                     /\ a.appointment_time <= Window("day", sweep.now0).hi)
                        => /\ DayReminder(a) \in lastOp'.notif
                           /\ \E b \in appointments' :
                                b.id = a.id /\ b.reminder_sent_day
                /\ a.reminder_sent_day => DayReminder(a) \notin lastOp'.notif
            /\ a.reminder_sent_day =>
                \A b \in appointments' : b.id = a.id => b.reminder_sent_day
       /\ (\E n \in lastOp'.notif : n.kind = "day") => schedule_reminders_remind]_vars

\* A later sweep has just run its reminder step over an active appointment
\* whose day flag an earlier sweep set, and has sent nothing.
C20_Witness ==
    /\ lastOp.op = "schedule_reminders"
    /\ lastOp.reply = "reminders"
    /\ lastOp.notif = {}
    /\ now > StartTime
    /\ \E a \in appointments :
        /\ a.status = "active"
        /\ a.reminder_sent_day
        /\ a.appointment_time >= Window("day", now).lo
        /\ a.appointment_time <= Window("day", now).hi

\* ------------------------------------------------------------ reminders
FlagOf(a, kind) ==
    IF kind = "day" THEN a.reminder_sent_day
    ELSE IF kind = "hour" THEN a.reminder_sent_hour ELSE a.reminder_sent_admin

\* The messages of the reminder of a kind for an appointment.
ReminderOf(a, kind) ==
    IF kind = "admin"
    THEN {Notification("admin_reminder", ad, a.id, NoUser) : ad \in Admins}
    ELSE {Notification(kind, a.client_id, a.id, NoUser)}

IsReminder(n) == n.kind \in {"day", "hour", "admin_reminder"}

\* The appointment is one the reminder of the kind is for, in a cycle with
\* timestamp t0, but for the kind's flag.
InWindow(a, kind, t0) ==
    /\ a.status = "active"
    /\ a.appointment_time >= Window(kind, t0).lo
    /\ a.appointment_time <= Window(kind, t0).hi

\* C21: in the reminder step of a sweep, for each appointment and each
\* kind (day-before, hour-before, admin-imminent): the reminder of the
\* kind is sent exactly when the appointment is active, in the kind's
\* window and the kind's own flag is unset, whatever the other two flags
\* are; the kind's flag is afterwards set exactly when it was set or the
\* reminder was sent; the rest of the row, its status among it, is
\* unchanged.  No other step sends a reminder.
C21_EachKindOwnFlag ==
    [][/\ schedule_reminders_remind =>
            \A a \in appointments :
                \E b \in appointments' :
                    /\ b = [a EXCEPT !.reminder_sent_day = b.reminder_sent_day,
                                     !.reminder_sent_hour = b.reminder_sent_hour,
                                     !.reminder_sent_admin = b.reminder_sent_admin]
                    /\ \A k \in ReminderKinds :
                        LET sent == InWindow(a, k, sweep.now0) /\ ~FlagOf(a, k)
                        IN  /\ sent => ReminderOf(a, k) \subseteq lastOp'.notif
                            /\ ~sent => ReminderOf(a, k) \cap lastOp'.notif = {}
                            /\ FlagOf(b, k) = (FlagOf(a, k) \/ sent)
       /\ (\E n \in lastOp'.notif : IsReminder(n)) => schedule_reminders_remind]_vars

\* A reminder step has just sent the hour-before and the admin reminder of
\* an appointment whose day flag was set before, and the day-before
\* reminder of another, and the first has its three flags set and the
\* second its day flag only.
C21_Witness ==
    /\ lastOp.op = "schedule_reminders"
    /\ lastOp.reply = "reminders"
    /\ \E a, b \in appointments :
        /\ a.status = "active" /\ b.status = "active"
        /\ ReminderOf(a, "hour") \cup ReminderOf(a, "admin") \subseteq lastOp.notif
        /\ ReminderOf(a, "day") \cap lastOp.notif = {}
        /\ a.reminder_sent_day /\ a.reminder_sent_hour /\ a.reminder_sent_admin
        /\ ReminderOf(b, "day") \subseteq lastOp.notif
        /\ b.reminder_sent_day /\ ~b.reminder_sent_hour /\ ~b.reminder_sent_admin

\* C22: the three reminder flags of a row are unset when the row is
\* inserted, and whatever the step (booking, cancel by the client or an
\* admin, complete, sweep), a flag that is set on a row is still set after
\* the step.
C22_FlagsMonotonic ==
    [][\A b \in appointments' : \A k \in ReminderKinds :
            /\ (\A a \in appointments : a.id # b.id) => ~FlagOf(b, k)
            /\ \A a \in appointments :
                (a.id = b.id /\ FlagOf(a, k)) => FlagOf(b, k)]_vars

\* An appointment whose hour-before reminder was sent by this process has
\* since been cancelled or completed and has the flag set.
C22_Witness ==
    \E a \in appointments :
        /\ a.status \in Terminal
        /\ a.updated_at > ReminderStart
        /\ a.reminder_sent_hour
        /\ lastOp.op \in {"cancel_appointment", "admin_cancel_appointment",
                          "admin_complete_appointment"}

\* C23: a reminder whose send fails counts as sent.  In the reminder step
\* of a sweep every reminder that is due is attempted, whether or not an
\* earlier send of the step failed, and the flag of every attempted
\* reminder is set, delivered or not; and no step attempts a reminder of a
\* kind for an appointment whose flag of that kind is set, so a reminder
\* that failed is not sent again.
C23_FailedReminderCountsAsSent ==
    [][/\ schedule_reminders_remind =>
            \A a \in appointments : \A k \in ReminderKinds :
                (InWindow(a, k, sweep.now0) /\ ~FlagOf(a, k)) =>
                    /\ ReminderOf(a, k) \subseteq lastOp'.notif
                    /\ \E b \in appointments' : b.id = a.id /\ FlagOf(b, k)
       /\ \A n \in lastOp'.notif : \A a \in appointments :
            (IsReminder(n) /\ a.id = n.id) =>
                ~FlagOf(a, IF n.kind = "admin_reminder" THEN "admin" ELSE n.kind)]_vars

\* A reminder step has just attempted the hour-before reminder of an
\* appointment, the send has failed, the flag is set, and the same step
\* has gone on to the day-before reminder of another appointment, which
\* was delivered.
C23_Witness ==
    /\ lastOp.op = "schedule_reminders"
    /\ lastOp.reply = "reminders"
    /\ \E a, b \in appointments :
        /\ ReminderOf(a, "hour") \subseteq lastOp.notif
        /\ Delivered(ReminderOf(a, "hour")) = {}
        /\ a.reminder_sent_hour
        /\ ReminderOf(b, "day") \subseteq Delivered(lastOp.notif)
        /\ b.reminder_sent_day

\* C24: an error raised in a sweep cycle does not end the scheduler.  The
\* step that handles it leaves the scheduler asleep for the backoff, with
\* the table as the cycle's committed writes left it; the scheduler is
\* always asleep, in its auto-complete loop or in the review delay; when
\* it is asleep and the wake time has come, a cycle can begin; and after
\* an error (before the last clock value of the model) a further cycle
\* begins.
C24_ErrorDoesNotEndScheduler ==
    /\ [][schedule_reminders_error =>
            /\ sweep'.pc = "sleep"
            /\ sweep'.wake = now + SweepPeriod
            /\ appointments' = appointments]_vars
    /\ [](sweep.pc \in {"sleep", "auto", "review_sleep"})
    /\ []((sweep.pc = "sleep" /\ now >= sweep.wake) => ENABLED schedule_reminders_start)
    /\ (lastOp.reply = "error" /\ now < StartTime + (MaxTicks * TickLen))
            ~> (sweep.pc = "auto")

\* An error has ended a cycle that had selected a past-due appointment and
\* not yet completed it; the scheduler is asleep until the backoff is over.
C24_Witness ==
    /\ lastOp.op = "schedule_reminders"
    /\ lastOp.reply = "error"
    /\ sweep.pc = "sleep"
    /\ sweep.wake = now + SweepPeriod
    /\ \E a \in appointments : a.status = "active" /\ a.appointment_time < now

\* C25: sweep cycles do not overlap.  A cycle begins only when the
\* scheduler is asleep, with no appointment of an earlier cycle left to
\* complete or to ask a review for; the scheduler falls asleep only at the
\* end of a cycle, after the reminder loops or on an error; and the
\* timestamp and the list of a cycle are replaced only when the next begins.
C25_CyclesDoNotOverlap ==
    [][/\ schedule_reminders_start =>
            (sweep.pc = "sleep" /\ sweep.queue = {} /\ sweep.cur = 0)
       /\ (sweep.pc # "sleep" /\ sweep'.pc = "sleep") =>
            (schedule_reminders_remind \/ schedule_reminders_error)
       /\ (sweep.pc # "sleep" /\ sweep'.pc # "sleep") =>
            (sweep'.now0 = sweep.now0 /\ sweep'.queue \subseteq sweep.queue)]_vars

\* A second cycle has begun, ten minutes after the first, and has selected
\* an appointment that became past due in between.
C25_Witness ==
    /\ sweep.pc = "auto"
    /\ sweep.now0 > ReminderStart
    /\ sweep.queue # {}
    /\ \E a \in appointments : a.reminder_sent_hour /\ a.status = "active"

\* --------------------------------------------------------------- delivery
\* C26: a failed delivery of the operators' notification does not touch
\* the booking.  The step of create_appointment that inserts the row
\* stores it active and replies that the appointment is created, and the
\* step of cancel_appointment that finds the caller's active row sets it
\* cancelled and replies that it is cancelled, whether or not the
\* notification of the step is delivered; and the send of an undelivered
\* notification returns (False) to a handler that goes on.
C26_DeliveryFailureNotEscalated ==
    [][/\ \A u \in Users :
            (create_appointment_insert(u)
                /\ ~unique_violation(booking[u].appointment_time, booking[u].master_id)) =>
                /\ \E b \in appointments' :
                        b.id = nextId /\ b.client_id = u /\ b.status = "active"
                /\ lastOp'.reply = "created"
                /\ lastOp'.notif # {}
       /\ \A u \in Users, id \in Ids :
            (cancel_appointment(u, id)
                /\ \E a \in appointments :
                        a.id = id /\ a.status = "active" /\ a.client_id = u) =>
                /\ \E b \in appointments' : b.id = id /\ b.status = "cancelled"
                /\ lastOp'.reply = "ok"
                /\ lastOp'.notif # {}]_vars

\* A client has just cancelled an appointment, the notification of the
\* operators was attempted and not delivered, and the row is cancelled.
C26_Witness ==
    /\ lastOp.op = "cancel_appointment"
    /\ lastOp.reply = "ok"
    /\ lastOp.notif # {}
    /\ Delivered(lastOp.notif) = {}
    /\ \E n \in lastOp.notif : \E a \in appointments :
        a.id = n.id /\ a.status = "cancelled" /\ a.updated_at = now

\* ----------------------------------------------------------------- reviews
\* C27: at most one row of the reviews table references a given
\* appointment.
C27_OneReviewPerAppointment ==
    \A r1, r2 \in reviews : r1.appointment_id = r2.appointment_id => r1 = r2

\* C28: every row of the reviews table references a stored appointment
\* whose status is completed.
C28_ReviewOfCompletedAppointment ==
    \A r \in reviews :
        \E a \in appointments : a.id = r.appointment_id /\ a.status = "completed"

ReviewRequest(a) == Notification("review_request", a.client_id, a.id, NoUser)

\* C29: for an appointment the sweep has completed, the step of the sweep
\* that follows the review delay sends the review request to the
\* appointment's client.
C29_SweepSendsReviewRequest ==
    [][schedule_reminders_ask_review =>
        \A a \in appointments :
            a.id = sweep.cur => ReviewRequest(a) \in lastOp'.notif]_vars

\* C30: the sweep's auto-complete step changes only an appointment that is
\* still active: an appointment cancelled after the sweep selected it and
\* before the sweep's update for it runs stays cancelled.
C30_SweepCompletesOnlyActive ==
    [][schedule_reminders_complete =>
        \A a \in appointments : a.status = "cancelled" => a \in appointments']_vars

\* ------------------------------------------------ reminders and the clock
\* C31: a reminder is sent only for an appointment that is active when it
\* is sent.
C31_ReminderOnlyForActive ==
    [][schedule_reminders_send =>
        \A n \in lastOp'.notif :
            \E a \in appointments : a.id = n.id /\ a.status = "active"]_vars

\* C32: an hour-before or admin-imminent reminder is sent while the
\* appointment's scheduled time is still ahead of the clock.
C32_ReminderBeforeScheduledTime ==
    [][\A n \in lastOp'.notif : \A a \in appointments :
            (n.kind \in {"hour", "admin_reminder"} /\ a.id = n.id) =>
                a.appointment_time > now']_vars

\* C33: an appointment stored at least 11 minutes before its scheduled
\* time, with the scheduler running since then, and active at that time has
\* had its admin reminder sent.
C33_AdminReminderBeforeScheduledTime ==
    \A a \in appointments :
        (/\ a.status = "active"
         /\ a.updated_at <= a.appointment_time - (11 * Minute)
         /\ ClockStart <= a.appointment_time - (11 * Minute)
         /\ now >= a.appointment_time) => a.reminder_sent_admin

SweepStep ==
    \/ schedule_reminders_start
    \/ schedule_reminders_complete
    \/ schedule_reminders_ask_review
    \/ schedule_reminders_remind

\* C34: no step of the sweep changes the status of an appointment whose
\* scheduled time is the current time or later: an active appointment
\* stays active through every cycle until its time is strictly past.
C34_NotCompletedBeforeItsTime ==
    [][SweepStep =>
        \A a \in appointments :
            a.appointment_time >= now =>
                \E b \in appointments' : b.id = a.id /\ b.status = a.status]_vars

\* A cycle has started at the very second of an active appointment's
\* scheduled time and has not selected it.
C34_Witness ==
    /\ sweep.pc = "auto"
    /\ sweep.queue = {}
    /\ \E a \in appointments :
        a.status = "active" /\ a.appointment_time = sweep.now0

GrantedIn(u, t) ==
    Cardinality({i \in 1 .. Len(granted[u]) :
                    granted[u][i] > t - Minute /\ granted[u][i] <= t})

\* C36: in any window of 60 seconds check_rate_limit has accepted at most
\* RATE_LIMIT_PER_USER requests of one user; a request is refused exactly
\* when the user's own accepted requests of the last minute have reached the
\* limit, whatever the other users did, and a refused request leaves the
\* cache as it is; a call does not touch what the cache holds of the last
\* minute for the other users.
C36_RateLimitPerUser ==
    /\ [](\A u \in Users : \A t \in Range(granted[u]) \cup {now} :
            GrantedIn(u, t) <= RATE_LIMIT_PER_USER)
    /\ [][\A u \in Users : check_rate_limit(u) =>
            /\ (lastOp'.reply = "False") <=>
                    (GrantedIn(u, now) >= RATE_LIMIT_PER_USER)
            /\ (lastOp'.reply = "False") =>
                    (rate_limit_cache' = rate_limit_cache)
            /\ \A v \in Users \ {u} :
                    /\ granted'[v] = granted[v]
                    /\ newer_than(rate_limit_cache'[v], now - Minute) =
                            newer_than(rate_limit_cache[v], now - Minute)]_vars

\* The eleventh request of u1 within a minute has just been refused, some of
\* its ten accepted ones being of half a minute ago, and u2 has an accepted
\* request in the same minute.
C36_Witness ==
    /\ lastOp.op = "check_rate_limit"
    /\ lastOp.reply = "False"
    /\ GrantedIn("u1", now) = RATE_LIMIT_PER_USER
    /\ \E i \in 1 .. Len(granted["u1"]) : granted["u1"][i] < now
    /\ GrantedIn("u2", now) > 0

\* --------------------------------------------------------------- backups
Backups(dir) == {f \in dir : is_backup(f)}

\* What a cleanup that met no file error leaves: at most max_backups
\* backups, nothing new, the other files as they were, and no backup removed
\* when there were max_backups or fewer.
CleanupKeeps(max_backups) ==
    /\ Cardinality(Backups(backup_dir')) <= max_backups
    /\ backup_dir' \subseteq backup_dir
    /\ backup_dir \ backup_dir' \subseteq Backups(backup_dir)
    /\ (Cardinality(Backups(backup_dir)) <= max_backups) =>
            (backup_dir' = backup_dir)

====
